---- MODULE Spec2Model ----
(***************************************************************************)
(* A model of cc.xboxcontroller.XboxController                             *)
(* (src/src/cc/xboxcontroller/xboxcontroller.py): the polling session      *)
(* that reads XINPUT_STATE snapshots from the XInput driver, keeps the     *)
(* last snapshot, caches axis and button values, counts packets and        *)
(* dispatches events.                                                      *)
(*                                                                         *)
(* Numbers.  Axis values are Python floats raw / (2^bits - 1).  Since      *)
(* 65535 = 255 * 257, every such value, its double and the clamp bounds    *)
(* -1.0 and 1 are whole multiples of 1/65535: an axis value v is kept as   *)
(* the integer v * UNIT.  deadzone and dampen are kept as fractions        *)
(* <<num, den>>.  Packet numbers are 32-bit (c_ulong under windll) and the *)
(* arithmetic on them is Python's unbounded integer arithmetic; both       *)
(* exceed TLC's 32-bit integers, so such a number n is kept as the pair    *)
(* of limbs [hi, lo] with n = hi * LIMB + lo and 0 <= lo < LIMB.           *)
(* Only the default normalize_axes = 1 (translate_using_data_size) is      *)
(* modelled.                                                               *)
(*                                                                         *)
(* Scope.  pyglet's EventDispatcher.dispatch_event is outside the          *)
(* repository: it is modelled as delivering the event to the listeners,    *)
(* which return normally and do not call back into the session.  This is   *)
(* assumed for "on_missed_packet" too, although the module registers only  *)
(* on_state_changed, on_axis and on_button as event types (lines 617-619). *)
(* Each delivery is recorded with the cached state a listener would read   *)
(* at that moment through get_axis, get_button and the counters.           *)
(***************************************************************************)
EXTENDS Integers, Sequences, FiniteSets

\* ---------------------------------------------------------------- bounds
\* update() calls explored per behaviour.
MaxUpdates == 2
\* The widest word the bit decoder is asked for, beside the 16-bit button mask.
MaxWidth == 6

\* ------------------------------------------------------- program constants
DEVICE_NOT_CONNECTED == 1167
SUCCESS == 0
\* 2^16 - 1, the divisor of a 2-byte axis; the unit axis values are kept in.
UNIT == 65535
\* Limb base of the two-limb integers.
LIMB == 65536
\* class Button: the D-pad ordinals.
DPAD_R == 13
DPAD_L == 14
DPAD_D == 15
DPAD_U == 16

\* ------------------------------------------------ unbounded/32-bit integers
Big(n) == [hi |-> n \div LIMB, lo |-> n % LIMB]
BigAdd(a, b) ==
    LET lo == a.lo + b.lo
    IN  [hi |-> a.hi + b.hi + (lo \div LIMB), lo |-> lo % LIMB]
BigSub(a, b) ==
    LET lo == a.lo - b.lo
    IN  [hi |-> a.hi - b.hi + (lo \div LIMB), lo |-> lo % LIMB]
BigIsZero(a) == a.hi = 0 /\ a.lo = 0
BigIsPos(a) == a.hi > 0 \/ (a.hi = 0 /\ a.lo > 0)
BigIsNeg(a) == a.hi < 0
BigLess(a, b) == BigIsNeg(BigSub(a, b))
\* The largest value of the c_ulong packet_number field: 2^32 - 1.
MaxPacketNumber == [hi |-> LIMB - 1, lo |-> LIMB - 1]

\* ------------------------------------------------------------- structures
\* Python's None.
None == [none |-> TRUE]

\* XINPUT_GAMEPAD, fields in declaration order.
XINPUT_GAMEPAD(buttons, LTrigger, RTrigger, LX, LY, RX, RY) ==
    [buttons |-> buttons, LTrigger |-> LTrigger, RTrigger |-> RTrigger,
     LX |-> LX, LY |-> LY, RX |-> RX, RY |-> RY]

\* Two c_ushort motor speeds.
XINPUT_VIBRATION(wLeftMotorSpeed, wRightMotorSpeed) ==
    [wLeftMotorSpeed |-> wLeftMotorSpeed % LIMB,
     wRightMotorSpeed |-> wRightMotorSpeed % LIMB]

\* Two c_ubyte fields.
XINPUT_BATTERY_INFORMATION(BatteryType, BatteryLevel) ==
    [BatteryType |-> BatteryType % 256, BatteryLevel |-> BatteryLevel % 256]

XINPUT_STATE(packet_number, gamepad) ==
    [packet_number |-> packet_number, gamepad |-> gamepad]

\* The names of XINPUT_GAMEPAD._fields_, in declaration order.
GamepadFields == <<"buttons", "LTrigger", "RTrigger", "LX", "LY", "RX", "RY">>

\* ctypes.sizeof of a field's type: c_ubyte is 1 byte, c_short and c_ushort 2.
SizeOf(field) == IF field \in {"LTrigger", "RTrigger"} THEN 1 ELSE 2

\* class Axis
Axis == {"LX", "LY", "RX", "RY", "LTrigger", "RTrigger"}

\* --------------------------------------------------------------- bit decoder
RECURSIVE gen_bit_values(_)
gen_bit_values(number) ==
    IF number = 0 THEN <<>>
    ELSE <<number % 2>> \o gen_bit_values(number \div 2)

Reverse(s) == [i \in 1..Len(s) |-> s[Len(s) + 1 - i]]

Zeros(n) == IF n > 0 THEN [i \in 1..n |-> 0] ELSE <<>>

\* A variant that keeps the generator's order: least significant bit first.
get_bit_values_lsb_first(number, size) ==
    LET res == gen_bit_values(number)
    IN  res \o Zeros(size - Len(res))

\* A variant without the padding of the most significant bits.
get_bit_values_unpadded(number, size) ==
    Reverse(gen_bit_values(number))

get_bit_values(number, size) ==
    LET res == Reverse(gen_bit_values(number))
    IN  Zeros(size - Len(res)) \o res

\* Python's ^ on two non-negative integers.
RECURSIVE Xor(_, _)
Xor(a, b) ==
    IF a = 0 /\ b = 0 THEN 0
    ELSE (IF a % 2 = b % 2 THEN 0 ELSE 1) + 2 * Xor(a \div 2, b \div 2)

\* ------------------------------------------------------ the driver's inputs
\* Packet numbers the driver reports: 5, 6, 8 and the largest one, 2^32 - 1,
\* after which the number wraps to a small value.
PacketNumbers == {Big(5), Big(6), Big(8), MaxPacketNumber}

\* Gamepad readings the driver reports (0x0001 is the lowest button bit,
\* 0x8000 the highest; a stick sample of 4000 and a trigger sample of 10 lie
\* inside the default deadzone).
Gamepads ==
    { XINPUT_GAMEPAD(0, 0, 0, 0, 0, 0, 0),
      XINPUT_GAMEPAD(1, 10, 0, 4000, 0, 0, 0),
      XINPUT_GAMEPAD(36865, 255, 128, 20000, 0, -32768, 0),
      XINPUT_GAMEPAD(32768, 255, 0, 32767, 0, -32768, 0) }

Snapshots == { XINPUT_STATE(p, g) : p \in PacketNumbers, g \in Gamepads }

\* Status codes of XInputGetState other than SUCCESS and DEVICE_NOT_CONNECTED.
UnknownCodes == {5}

\* What one XInputGetState call yields: its status code and the state it filled.
DriverResults ==
    { [res |-> SUCCESS, state |-> st] : st \in Snapshots }
    \cup { [res |-> c, state |-> None] : c \in {DEVICE_NOT_CONNECTED} \cup UnknownCodes }

\* Arguments of the constructor: <<deadzone, dampen>>, each a fraction
\* <<num, den>>.  The first pair is the defaults DEADZONE and DAMPEN.
DEADZONE == <<8, 100>>
DAMPEN == <<5, 1000000000>>
Configs == { <<DEADZONE, DAMPEN>>, <<<<1, 2>>, <<1, 4>>>> }

\* ----------------------------------------------------------------- session
VARIABLES
    last_state,         \* self._last_state: a snapshot or None
    received_packets,   \* self.received_packets
    missed_packets,     \* self.missed_packets (two limbs)
    deadzone,           \* self.deadzone
    dampen,             \* self.dampen
    axes,               \* self.axes, in units of 1/UNIT
    buttons,            \* self.buttons, indices 0..16
    rumble,             \* self.rumble: <<left, right>>, each a fraction <<num, den>>
    op,                 \* the last call: the method's name
    returned,           \* the value the last call returned (None: none)
    sent,               \* the XInputSetState calls the last call made
    dispatched,         \* the events the last call delivered, in order
    outcome,            \* how the last call ended
    arg,                \* what the driver returned to the last call
    pre,                \* the session as it was when the last call began
    gap_sum,            \* the sum of the positive packet gaps seen by update()
    wrapped,            \* the packet number has wrapped from 2^32 - 1
    went_back,          \* the packet number has decreased otherwise
    incoherent,         \* a packet number has come again with other readings
    first_state,        \* what get_state() gave the constructor
    changes,            \* number of update() calls that saw another packet number
    updates             \* number of update() calls made

vars == <<last_state, received_packets, missed_packets, deadzone, dampen, axes,
          buttons, rumble, op, returned, sent, dispatched, outcome, arg, pre,
          gap_sum, wrapped, went_back, incoherent, first_state, changes,
          updates>>

\* The object as a value: the fields its methods read and write, and the
\* events delivered so far by the running call.
Self == [last_state |-> last_state, received_packets |-> received_packets,
         missed_packets |-> missed_packets, deadzone |-> deadzone,
         dampen |-> dampen, axes |-> axes, buttons |-> buttons,
         rumble |-> rumble, dispatched |-> <<>>, sent |-> <<>>,
         raised |-> "none"]

\* ----------------------------------------------------------- axis normalizer
\* float(value) / (2**data_bits - 1), in units of 1/UNIT (exact for 1 and 2 bytes).
translate_using_data_size(value, data_size) ==
    LET data_bits == 8 * data_size
    IN  (value * UNIT) \div (2 ^ data_bits - 1)

\* self.translate = choices[normalize_axes], with the default normalize_axes = 1.
translate(value, data_size) == translate_using_data_size(value, data_size)

Abs(x) == IF x < 0 THEN -x ELSE x
Max(a, b) == IF a >= b THEN a ELSE b
Min(a, b) == IF a <= b THEN a ELSE b

\* v / UNIT > q and v / UNIT < q for an integer v and a fraction q >= 0.
GreaterThan(v, q) == v > (q[1] * UNIT) \div q[2]
\* A variant of the deadzone test that takes in the bound itself.
LessThan_or_equal(v, q) == v <= (q[1] * UNIT) \div q[2]
LessThan(v, q) == v < -((-(q[1] * UNIT)) \div q[2])

\* -------------------------------------------------------------- accessors
is_connected(s) == s.last_state # None
get_axis(s, axis) == s.axes[axis]
get_button(s, button) == s.buttons[button]

\* Python's truth value of a cached button value.
Truthy(x) == x # 0

\* A variant that takes the left button for the right one and back.
get_dpad_mirrored(s) ==
    LET L == Truthy(get_button(s, DPAD_R))
        R == Truthy(get_button(s, DPAD_L))
        U == Truthy(get_button(s, DPAD_U))
        D == Truthy(get_button(s, DPAD_D))
    IN  IF ~L /\ ~R /\ U /\ ~D THEN 0
        ELSE IF ~L /\ R /\ U /\ ~D THEN 45
        ELSE IF ~L /\ R /\ ~U /\ ~D THEN 90
        ELSE IF ~L /\ R /\ ~U /\ D THEN 135
        ELSE IF ~L /\ ~R /\ ~U /\ D THEN 180
        ELSE IF L /\ ~R /\ ~U /\ D THEN 225
        ELSE IF L /\ ~R /\ ~U /\ ~D THEN 270
        ELSE IF L /\ ~R /\ U /\ ~D THEN 315
        ELSE -1

get_dpad(s) ==
    LET L == Truthy(get_button(s, DPAD_L))
        R == Truthy(get_button(s, DPAD_R))
        U == Truthy(get_button(s, DPAD_U))
        D == Truthy(get_button(s, DPAD_D))
    IN  IF ~L /\ ~R /\ U /\ ~D THEN 0
        ELSE IF ~L /\ R /\ U /\ ~D THEN 45
        ELSE IF ~L /\ R /\ ~U /\ ~D THEN 90
        ELSE IF ~L /\ R /\ ~U /\ D THEN 135
        ELSE IF ~L /\ ~R /\ ~U /\ D THEN 180
        ELSE IF L /\ ~R /\ ~U /\ D THEN 225
        ELSE IF L /\ ~R /\ ~U /\ ~D THEN 270
        ELSE IF L /\ ~R /\ U /\ ~D THEN 315
        ELSE -1

\* What a listener reads from the session while it runs.
Observed(s) == [axes |-> s.axes, buttons |-> s.buttons,
                received_packets |-> s.received_packets,
                missed_packets |-> s.missed_packets]

\* EventDispatcher.dispatch_event: the listeners of event_type run now.
dispatch_event(s, event_type, a, b) ==
    [s EXCEPT !.dispatched =
        Append(@, [event_type |-> event_type, a |-> a, b |-> b, seen |-> Observed(s)])]

\* ------------------------------------------------------------ axis events
\* A variant that scans the sticks first.
axis_fields_sticks_first == <<"LX", "LY", "RX", "RY", "LTrigger", "RTrigger">>

\* dict(XINPUT_GAMEPAD._fields_) without "buttons": the axes in scan order.
axis_fields == SelectSeq(GamepadFields, LAMBDA f : f # "buttons")

\* max(-1.0, min(val, 1)) in units of 1/UNIT.
Clamp(val) == Max(-UNIT, Min(val, UNIT))

\* A variant that does not double a stick's value.
axis_value_undoubled(axis, val) == Clamp(val)

\* The value stored and dispatched for an axis whose (deadzone-clamped)
\* current value is val: doubled for a stick, then clamped.
axis_value(axis, val) ==
    Clamp(IF axis \notin {"LTrigger", "RTrigger"} THEN val * 2 ELSE val)

\* A variant of the loop body without the dampen test.
axis_body_undampened(s, state, axis) ==
    LET data_size == SizeOf(axis)
        last_val  == translate(s.last_state.gamepad[axis], data_size)
        val       == translate(state.gamepad[axis], data_size)
        last_dz   == IF LessThan(Abs(last_val), s.deadzone) THEN 0 ELSE last_val
        val_dz    == IF LessThan(Abs(val), s.deadzone) THEN 0 ELSE val
        out       == axis_value(axis, val_dz)
    IN  IF last_dz # val_dz
        THEN dispatch_event([s EXCEPT !.axes[axis] = out], "on_axis", axis, out)
        ELSE s

\* One pass of the loop body of dispatch_axis_events.
axis_body(s, state, axis) ==
    LET data_size == SizeOf(axis)
        last_val  == translate(s.last_state.gamepad[axis], data_size)
        val       == translate(state.gamepad[axis], data_size)
        last_dz   == IF LessThan(Abs(last_val), s.deadzone) THEN 0 ELSE last_val
        val_dz    == IF LessThan(Abs(val), s.deadzone) THEN 0 ELSE val
        out       == axis_value(axis, val_dz)
    IN  IF GreaterThan(Abs(last_val - val), s.dampen) /\ last_dz # val_dz
        THEN dispatch_event([s EXCEPT !.axes[axis] = out], "on_axis", axis, out)
        ELSE s

RECURSIVE axis_loop(_, _, _)
axis_loop(s, state, i) ==
    IF i > Len(axis_fields) THEN s
    ELSE axis_loop(axis_body(s, state, axis_fields[i]), state, i + 1)

dispatch_axis_events(s, state) == axis_loop(s, state, 1)

\* ---------------------------------------------------------- button events
\* A variant that runs the listeners before it stores the value.
dispatch_button_event_late(s, changed, number, pressed) ==
    [dispatch_event(s, "on_button", number, pressed) EXCEPT !.buttons[number] = pressed]

\* A variant that runs the listeners and stores nothing.
dispatch_button_event_unstored(s, changed, number, pressed) ==
    dispatch_event(s, "on_button", number, pressed)

dispatch_button_event(s, changed, number, pressed) ==
    dispatch_event([s EXCEPT !.buttons[number] = pressed], "on_button", number, pressed)

\* A variant without the filter: every triple is dispatched.
RECURSIVE button_loop_unfiltered(_, _, _, _)
button_loop_unfiltered(s, changed, buttons_state, number) ==
    IF number > Len(changed) \/ number > Len(buttons_state) THEN s
    ELSE button_loop_unfiltered(
            dispatch_button_event(s, changed[number], number, buttons_state[number]),
            changed, buttons_state, number + 1)

\* starmap over the triples of zip(changed, count(1), buttons_state) whose
\* first item is set.
RECURSIVE button_loop(_, _, _, _)
button_loop(s, changed, buttons_state, number) ==
    IF number > Len(changed) \/ number > Len(buttons_state) THEN s
    ELSE button_loop(
            IF changed[number] # 0
            THEN dispatch_button_event(s, changed[number], number, buttons_state[number])
            ELSE s,
            changed, buttons_state, number + 1)

dispatch_button_events(s, state) ==
    LET changed       == get_bit_values(Xor(state.gamepad.buttons,
                                            s.last_state.gamepad.buttons), 16)
        buttons_state == get_bit_values(state.gamepad.buttons, 16)
    IN  button_loop(s, changed, buttons_state, 1)

\* ------------------------------------------------------ rumble and battery
\* A float given as a fraction <<numerator, denominator>>, denominator > 0.
FloatLess(x, y) == x[1] * y[2] < y[1] * x[2]

\* Python's min(x, y) and max(x, y): the first argument unless the second is
\* strictly smaller, respectively strictly larger.
FloatMin(x, y) == IF FloatLess(y, x) THEN y ELSE x
FloatMax(x, y) == IF FloatLess(x, y) THEN y ELSE x

\* int(x * 65535) of a float x: truncation toward zero.
MotorSpeed(x) ==
    IF x[1] >= 0 THEN (x[1] * UNIT) \div x[2] ELSE -(((-x[1]) * UNIT) \div x[2])

\* str.upper() on the side names a caller passes.
Upper(side) ==
    CASE side = "left" -> "LEFT"
      [] side = "Right" -> "RIGHT"
      [] OTHER -> side

\* A variant that stores the value as given.
set_rumble_unclamped(s, side, value, res) ==
    LET rumble0 == IF Upper(side) = "LEFT"
                     THEN [s.rumble EXCEPT ![1] = value]
                   ELSE IF Upper(side) = "RIGHT"
                     THEN [s.rumble EXCEPT ![2] = value]
                   ELSE s.rumble
        vibration == XINPUT_VIBRATION(MotorSpeed(rumble0[1]), MotorSpeed(rumble0[2]))
    IN  [s EXCEPT !.rumble = rumble0, !.sent = Append(@, vibration)]

\* res is what XInputSetState returns; the method does not read it.
set_rumble(s, side, value, res) ==
    LET rumble0 == IF Upper(side) = "LEFT"
                     THEN [s.rumble EXCEPT
                             ![1] = FloatMax(<<0, 1>>, FloatMin(<<1, 1>>, value))]
                   ELSE IF Upper(side) = "RIGHT"
                     THEN [s.rumble EXCEPT
                             ![2] = FloatMax(<<0, 1>>, FloatMin(<<1, 1>>, value))]
                   ELSE s.rumble
        vibration == XINPUT_VIBRATION(MotorSpeed(rumble0[1]), MotorSpeed(rumble0[2]))
    IN  [s EXCEPT !.rumble = rumble0, !.sent = Append(@, vibration)]

BatteryTypes == <<"Disconnected", "Wired", "Alkaline", "Nimh">>
BatteryLevels == <<"Empty", "Low", "Medium", "Full">>

\* r is what XInputGetBatteryInformation returns (r.res, which the method does
\* not read) and what it leaves in the structure (r.battery).
get_battery_information(s, r) ==
    LET battery == r.battery
    IN  IF battery.BatteryType # 255 /\ battery.BatteryType >= Len(BatteryTypes)
          THEN [raised |-> "IndexError", value |-> None]
        ELSE IF battery.BatteryLevel >= Len(BatteryLevels)
          THEN [raised |-> "IndexError", value |-> None]
        ELSE [raised |-> "none",
              value |-> <<IF battery.BatteryType = 255 THEN "Unknown"
                          ELSE BatteryTypes[battery.BatteryType + 1],
                          BatteryLevels[battery.BatteryLevel + 1]>>]

\* ------------------------------------------------------------------ update
\* A variant that counts the new packet itself as missed.
update_packet_count_off_by_one(s, state) ==
    LET s1 == [s EXCEPT !.received_packets = @ + 1]
        missed_packets_ == BigSub(state.packet_number, s.last_state.packet_number)
        s2 == IF ~BigIsZero(missed_packets_)
              THEN dispatch_event(s1, "on_missed_packet", missed_packets_, 0)
              ELSE s1
    IN  [s2 EXCEPT !.missed_packets = BigAdd(@, missed_packets_)]

\* A variant that counts the received packet only.
update_packet_count_without_missed(s, state) ==
    LET s1 == [s EXCEPT !.received_packets = @ + 1]
        missed_packets_ == BigSub(BigSub(state.packet_number,
                                         s.last_state.packet_number), Big(1))
    IN  IF ~BigIsZero(missed_packets_)
        THEN dispatch_event(s1, "on_missed_packet", missed_packets_, 0)
        ELSE s1

update_packet_count(s, state) ==
    LET s1 == [s EXCEPT !.received_packets = @ + 1]
        missed_packets_ == BigSub(BigSub(state.packet_number,
                                         s.last_state.packet_number), Big(1))
        s2 == IF ~BigIsZero(missed_packets_)
              THEN dispatch_event(s1, "on_missed_packet", missed_packets_, 0)
              ELSE s1
    IN  [s2 EXCEPT !.missed_packets = BigAdd(@, missed_packets_)]

\* A variant that scans the buttons before the axes.
handle_changed_state_buttons_first(s, state) ==
    dispatch_axis_events(
        dispatch_button_events(
            dispatch_event(s, "on_state_changed", state, 0), state), state)

handle_changed_state(s, state) ==
    dispatch_button_events(
        dispatch_axis_events(
            dispatch_event(s, "on_state_changed", state, 0), state), state)

\* get_state: the state on SUCCESS, None on DEVICE_NOT_CONNECTED, and
\* otherwise RuntimeError.
get_state(r) ==
    IF r.res = SUCCESS THEN [raised |-> "none", state |-> r.state]
    ELSE IF r.res # DEVICE_NOT_CONNECTED THEN [raised |-> "RuntimeError", state |-> None]
    ELSE [raised |-> "none", state |-> None]

\* A variant that forgets the last snapshot when the device is missing.
not_connected_forgets(s) == [s EXCEPT !.last_state = None, !.raised = "RuntimeError"]

\* if not state: raise RuntimeError("Joystick %d is not connected")
not_connected(s) == [s EXCEPT !.raised = "RuntimeError"]

\* A variant that compares the whole snapshots.
state_changed_by_content(s, state) == state # s.last_state

\* state.packet_number != self._last_state.packet_number
state_changed(s, state) == state.packet_number # s.last_state.packet_number

\* update() on session s when the driver yields r: the session afterwards,
\* with .raised the exception that ended the call ("none": it returned).
update(s, r) ==
    LET got == get_state(r)
        state == got.state
    IN  IF got.raised # "none" THEN [s EXCEPT !.raised = got.raised]
        ELSE IF state = None THEN not_connected(s)
        \* state.packet_number != self._last_state.packet_number, on None
        ELSE IF s.last_state = None THEN [s EXCEPT !.raised = "AttributeError"]
        ELSE LET s1 == IF state_changed(s, state)
                       THEN handle_changed_state(update_packet_count(s, state), state)
                       ELSE s
             IN  [s1 EXCEPT !.last_state = state]

\* ------------------------------------------------------------ specification
\* update() compares the driver's snapshot with the stored one.
Compares(s, r) == r.res = SUCCESS /\ s.last_state # None

\* The driver's packet number is smaller than the stored one ...
Decreases(s, r) ==
    Compares(s, r) /\ BigLess(r.state.packet_number, s.last_state.packet_number)

\* ... because it passed 2^32 - 1.
Wraps(s, r) == Decreases(s, r) /\ s.last_state.packet_number = MaxPacketNumber

\* The driver repeats the stored packet number with other readings.
Incoherent(s, r) ==
    /\ Compares(s, r)
    /\ r.state.packet_number = s.last_state.packet_number
    /\ r.state # s.last_state

\* update() finds another packet number than the stored one.
Differs(s, r) ==
    Compares(s, r) /\ r.state.packet_number # s.last_state.packet_number

\* The positive part of current - previous - 1, when update() compares two
\* snapshots; zero when it compares none.
Gap(s, r) ==
    IF Compares(s, r)
       /\ r.state.packet_number # s.last_state.packet_number
    THEN LET g == BigSub(BigSub(r.state.packet_number, s.last_state.packet_number), Big(1))
         IN  IF BigIsPos(g) THEN g ELSE Big(0)
    ELSE Big(0)

\* XboxController(device_number, deadzone, dampen): get_state() returned a
\* state or None (an unknown status raises and no session exists).
Construct(r, c) ==
    /\ get_state(r).raised = "none"
    /\ last_state = get_state(r).state
    /\ received_packets = 0
    /\ missed_packets = Big(0)
    /\ deadzone = c[1]
    /\ dampen = c[2]
    /\ axes = [a \in Axis |-> 0]
    /\ buttons = [n \in 0..16 |-> 0]
    /\ rumble = <<<<0, 1>>, <<0, 1>>>>
    /\ op = "__init__"
    /\ returned = None
    /\ sent = <<>>
    /\ dispatched = <<>>
    /\ outcome = "constructed"
    /\ arg = r
    /\ pre = Self
    /\ gap_sum = Big(0)
    /\ wrapped = FALSE
    /\ went_back = FALSE
    /\ incoherent = FALSE
    /\ first_state = get_state(r).state
    /\ changes = 0
    /\ updates = 0

Init == \E r \in DriverResults, c \in Configs : Construct(r, c)

\* The caller polls: stick.update().
Update(r) ==
    /\ updates < MaxUpdates
    /\ LET s == update(Self, r)
       IN  /\ last_state' = s.last_state
           /\ received_packets' = s.received_packets
           /\ missed_packets' = s.missed_packets
           /\ axes' = s.axes
           /\ buttons' = s.buttons
           /\ dispatched' = s.dispatched
           /\ outcome' = IF s.raised = "none" THEN "returned" ELSE s.raised
    /\ op' = "update"
    /\ returned' = None
    /\ sent' = <<>>
    /\ arg' = r
    /\ pre' = Self
    /\ gap_sum' = BigAdd(gap_sum, Gap(Self, r))
    /\ wrapped' = (wrapped \/ Wraps(Self, r))
    /\ went_back' = (went_back \/ (Decreases(Self, r) /\ ~Wraps(Self, r)))
    /\ incoherent' = (incoherent \/ Incoherent(Self, r))
    /\ changes' = changes + (IF Differs(Self, r) THEN 1 ELSE 0)
    /\ UNCHANGED first_state
    /\ updates' = updates + 1
    /\ UNCHANGED <<deadzone, dampen, rumble>>

Next == \E r \in DriverResults : Update(r)

Spec == Init /\ [][Next]_vars

\* What a call leaves alone when it only reads the session or only sets the
\* rumble: the polled state and its history.
PollingUnchanged ==
    UNCHANGED <<last_state, received_packets, missed_packets, deadzone, dampen,
                axes, buttons, gap_sum, wrapped, went_back, incoherent,
                first_state, changes, updates>>

\* ---------------------------------------------- polling, buttons in detail
\* Button masks the driver reports: none, the lowest bits, the highest bits,
\* mixed ones and all sixteen.
ButtonMasks == {0, 1, 2, 384, 16384, 32768, 36865, 65535}

ButtonResults ==
    { [res |-> SUCCESS,
       state |-> XINPUT_STATE(p, XINPUT_GAMEPAD(m, 0, 0, 0, 0, 0, 0))] :
        p \in {Big(5), Big(6)}, m \in ButtonMasks }

InitButtons == \E r \in ButtonResults : Construct(r, <<DEADZONE, DAMPEN>>)

NextButtons == \E r \in ButtonResults : Update(r)

SpecButtons == InitButtons /\ [][NextButtons]_vars

\* --------------------------------------------------- polling and the D-pad
\* The caller reads the D-pad: stick.get_dpad().
GetDpad ==
    /\ op' = "get_dpad"
    /\ returned' = get_dpad(Self)
    /\ outcome' = "returned"
    /\ arg' = None
    /\ pre' = Self
    /\ sent' = <<>>
    /\ dispatched' = <<>>
    /\ UNCHANGED rumble
    /\ PollingUnchanged

\* The sixteen combinations of the four D-pad bits (0x0001 .. 0x0008).
DpadResults ==
    { [res |-> SUCCESS,
       state |-> XINPUT_STATE(p, XINPUT_GAMEPAD(m, 0, 0, 0, 0, 0, 0))] :
        p \in {Big(5), Big(6)}, m \in 0..15 }

InitDpad ==
    Construct([res |-> SUCCESS,
               state |-> XINPUT_STATE(Big(5), XINPUT_GAMEPAD(0, 0, 0, 0, 0, 0, 0))],
              <<DEADZONE, DAMPEN>>)

NextDpad ==
    \/ \E r \in DpadResults : Update(r)
    \/ GetDpad

SpecDpad == InitDpad /\ [][NextDpad]_vars

\* ------------------------------------------------- polling, axes in detail
\* Readings in which every axis moves: trigger samples 10 and 50 and stick
\* samples 4000 lie inside the default deadzone; 51 / 255 and 13107 / 65535
\* are exactly 1/5; -32768 is the stick sample below -1.
AxisGamepads ==
    { XINPUT_GAMEPAD(0, 0, 0, 0, 0, 0, 0),
      XINPUT_GAMEPAD(0, 10, 51, 4000, 13107, 0, -4000),
      XINPUT_GAMEPAD(0, 255, 128, 20000, 32767, -32768, 13107),
      XINPUT_GAMEPAD(0, 51, 10, 13107, 4000, 20000, 0),
      XINPUT_GAMEPAD(0, 128, 255, -20000, -32768, 16384, 32767),
      XINPUT_GAMEPAD(0, 52, 50, 13108, -13107, -13106, 4001) }

AxisResults ==
    { [res |-> SUCCESS, state |-> XINPUT_STATE(p, g)] :
        p \in {Big(5), Big(6)}, g \in AxisGamepads }

\* The defaults, a deadzone of 1/5, a dampen of 1/4, and
\* XboxController(0, deadzone=0.0, dampen=0.0).
AxisConfigs ==
    { <<DEADZONE, DAMPEN>>, <<<<1, 5>>, DAMPEN>>, <<DEADZONE, <<1, 4>>>>,
      <<<<0, 1>>, <<0, 1>>>> }

InitAxes == \E r \in AxisResults, c \in AxisConfigs : Construct(r, c)

NextAxes == \E r \in AxisResults : Update(r)

SpecAxes == InitAxes /\ [][NextAxes]_vars

\* --------------------------------------------- polling, rumble and battery
\* The caller sets a motor: stick.set_rumble(side, value).
SetRumble(side, value, res) ==
    /\ LET s == set_rumble(Self, side, value, res)
       IN  /\ rumble' = s.rumble
           /\ sent' = s.sent
           /\ outcome' = IF s.raised = "none" THEN "returned" ELSE s.raised
    /\ op' = "set_rumble"
    /\ returned' = None
    /\ arg' = [res |-> res, side |-> side, value |-> value]
    /\ pre' = Self
    /\ dispatched' = <<>>
    /\ PollingUnchanged

\* The caller asks for the battery: stick.get_battery_information().
GetBatteryInformation(r) ==
    /\ LET b == get_battery_information(Self, r)
       IN  /\ returned' = b.value
           /\ outcome' = IF b.raised = "none" THEN "returned" ELSE b.raised
    /\ op' = "get_battery_information"
    /\ arg' = r
    /\ pre' = Self
    /\ sent' = <<>>
    /\ dispatched' = <<>>
    /\ UNCHANGED rumble
    /\ PollingUnchanged

\* Sides and values callers pass: the Hand names, other spellings, a name
\* that is no side, and values below, inside and above [0, 1].
Sides == {"LEFT", "RIGHT", "left", "Right", "BOTH"}
RumbleValues == {<<-1, 5>>, <<0, 1>>, <<1, 2>>, <<1, 1>>, <<3, 2>>}

\* What the driver answers to a call.
ReturnCodes == {SUCCESS, DEVICE_NOT_CONNECTED} \cup UnknownCodes

\* A successful battery query fills the structure with a type (0..3 or 0xFF)
\* and a level (0..3); a failed one leaves it as constructed, (0, 0).
BatteryResults ==
    { [res |-> SUCCESS, battery |-> XINPUT_BATTERY_INFORMATION(t, l)] :
        t \in {0, 1, 2, 3, 255}, l \in 0..3 }
    \cup { [res |-> c, battery |-> XINPUT_BATTERY_INFORMATION(0, 0)] :
             c \in ReturnCodes \ {SUCCESS} }

\* Polls of a pad whose left trigger moves, and failed polls.
RumbleResults ==
    { [res |-> SUCCESS,
       state |-> XINPUT_STATE(p, XINPUT_GAMEPAD(0, t, 0, 0, 0, 0, 0))] :
        p \in {Big(5), Big(6)}, t \in {0, 255} }
    \cup { [res |-> c, state |-> None] : c \in ReturnCodes \ {SUCCESS} }

InitRumble ==
    Construct([res |-> SUCCESS,
               state |-> XINPUT_STATE(Big(5), XINPUT_GAMEPAD(0, 0, 0, 0, 0, 0, 0))],
              <<DEADZONE, DAMPEN>>)

NextRumble ==
    \/ \E r \in RumbleResults : Update(r)
    \/ \E side \in Sides, value \in RumbleValues, res \in ReturnCodes :
          SetRumble(side, value, res)
    \/ \E r \in BatteryResults : GetBatteryInformation(r)

SpecRumble == InitRumble /\ [][NextRumble]_vars

\* ------------------------------------------------------------ bit decoder
\* A caller decodes a word: get_bit_values(number, size).
GetBitValues(number, size) ==
    /\ op' = "get_bit_values"
    /\ returned' = get_bit_values(number, size)
    /\ outcome' = "returned"
    /\ arg' = [number |-> number, size |-> size]
    /\ pre' = Self
    /\ sent' = <<>>
    /\ dispatched' = <<>>
    /\ UNCHANGED rumble
    /\ PollingUnchanged

\* Every word of every width up to MaxWidth, and the 16-bit button masks
\* dispatch_button_events decodes.
BitInputs ==
    { <<number, size>> : number \in 0..(2 ^ MaxWidth - 1), size \in 0..MaxWidth }
    \cup { <<m, 16>> : m \in ButtonMasks }

InitBits ==
    Construct([res |-> SUCCESS,
               state |-> XINPUT_STATE(Big(5), XINPUT_GAMEPAD(0, 0, 0, 0, 0, 0, 0))],
              <<DEADZONE, DAMPEN>>)

NextBits == \E in \in BitInputs : GetBitValues(in[1], in[2])

SpecBits == InitBits /\ [][NextBits]_vars

\* ------------------------------------------------------------------ claims
\* The last call was an update().
Polled == op = "update"

\* The last call was an update() that got a snapshot while a snapshot was stored.
Compared == Polled /\ arg.res = SUCCESS /\ is_connected(pre)

\* The events of one kind the last call delivered.
EventsOf(event_type) ==
    { i \in 1..Len(dispatched) : dispatched[i].event_type = event_type }

\* The bit of a button mask the session pairs with ordinal n.
ButtonBit(mask, n) == get_bit_values(mask, 16)[n]

\* The value an axis event reports for a raw sample: deadzone-clamped,
\* scaled, clamped to [-1, 1].
ReportedAxis(axis, raw) ==
    LET val == translate(raw, SizeOf(axis))
    IN  axis_value(axis, IF LessThan(Abs(val), deadzone) THEN 0 ELSE val)

\* C1: after a successful update() the cached buttons equal the bits of the
\* stored snapshot's button mask and the cached axes equal the values the
\* axis scan reports for the stored snapshot's raw samples.
C1_CacheReflectsLastSnapshot ==
    (Polled /\ outcome = "returned" /\ ~incoherent) =>
        /\ \A n \in 1..16 : get_button(Self, n) = ButtonBit(last_state.gamepad.buttons, n)
        /\ \A a \in Axis : get_axis(Self, a) = ReportedAxis(a, last_state.gamepad[a])

\* C2: the missed-packet counter never decreases and equals the sum of the
\* positive packet-number gaps seen so far, for every sequence of packet
\* numbers, a wrap from 2^32 - 1 to a small number included.  (Stated for
\* the packet numbers that decrease only by wrapping.)
C2_MissedIsSumOfPositiveGaps ==
    ~went_back =>
        /\ missed_packets = gap_sum
        /\ ~BigLess(missed_packets, pre.missed_packets)

\* C3: an update() of a Disconnected session that gets a snapshot returns
\* and leaves the session Connected.
C3_ReconnectsOnSnapshot ==
    (Polled /\ ~is_connected(pre) /\ arg.res = SUCCESS) =>
        (outcome = "returned" /\ is_connected(Self))

\* C4: an update() of a Connected session that finds no device leaves the
\* session Disconnected.
C4_DisconnectsOnMissingDevice ==
    (Polled /\ is_connected(pre) /\ arg.res = DEVICE_NOT_CONNECTED) =>
        ~is_connected(Self)

\* C5: an update() whose driver call yields no snapshot ends in an error,
\* delivers no event and leaves the stored snapshot, the cached axes and
\* buttons and both counters as they were.
C5_FailedPollChangesNothing ==
    (Polled /\ arg.res # SUCCESS) =>
        /\ outcome # "returned"
        /\ dispatched = <<>>
        /\ last_state = pre.last_state
        /\ axes = pre.axes
        /\ buttons = pre.buttons
        /\ received_packets = pre.received_packets
        /\ missed_packets = pre.missed_packets

\* A failed poll (either status) of a session that holds a snapshot and has
\* cached a pressed button and counted a packet.
C5_Witness ==
    /\ Polled /\ arg.res \in UnknownCodes \cup {DEVICE_NOT_CONNECTED}
    /\ outcome = "RuntimeError"
    /\ is_connected(pre)
    /\ pre.received_packets = 1
    /\ \E n \in 1..16 : pre.buttons[n] = 1

\* The number update_packet_count computes for the last call:
\* current.packet_number - previous.packet_number - 1.
Missed == BigSub(BigSub(arg.state.packet_number, pre.last_state.packet_number), Big(1))

\* C6 as claimed: every listener the last call ran saw the cached state the
\* call ended with.
C6_AllAppliedBeforeFirstCallback ==
    \A i \in 1..Len(dispatched) : dispatched[i].seen = Observed(Self)

\* C6 as amended: when a listener runs, the received-packet counter and the
\* axis and button events delivered so far in the call, its own included,
\* are applied; the axis and button events delivered later are not yet, and
\* the missed-packet counter grows only after the missed-packet listeners ran.
C6_AppliedUpToOwnEvent ==
    \A i \in 1..Len(dispatched) :
        LET e == dispatched[i]
        IN  /\ e.seen.received_packets = received_packets
            /\ e.seen.missed_packets =
                    IF e.event_type = "on_missed_packet"
                    THEN pre.missed_packets ELSE missed_packets
            /\ \A j \in EventsOf("on_axis") :
                    e.seen.axes[dispatched[j].a] =
                        IF j <= i THEN dispatched[j].b ELSE pre.axes[dispatched[j].a]
            /\ \A j \in EventsOf("on_button") :
                    e.seen.buttons[dispatched[j].a] =
                        IF j <= i THEN dispatched[j].b ELSE pre.buttons[dispatched[j].a]

\* A call that delivered a missed-packet event, two axis events and a button
\* event, whose first listener saw another state than the call ended with.
C6_Witness ==
    /\ Polled /\ outcome = "returned"
    /\ EventsOf("on_missed_packet") # {}
    /\ Cardinality(EventsOf("on_axis")) >= 2
    /\ EventsOf("on_button") # {}
    /\ dispatched[1].seen # Observed(Self)

\* C7: the events of one update() come in the order missed-packet, axis,
\* button, and the button events in strictly ascending ordinal order.
C7_EventOrder ==
    \A i, j \in 1..Len(dispatched) :
        i < j =>
            LET e == dispatched[i]
                f == dispatched[j]
            IN  /\ f.event_type = "on_missed_packet" =>
                        e.event_type \notin {"on_axis", "on_button"}
                /\ f.event_type = "on_axis" => e.event_type # "on_button"
                /\ (e.event_type = "on_button" /\ f.event_type = "on_button") => e.a < f.a

\* A call that delivered a missed-packet event, a trigger and a stick event
\* and three button events.
C7_Witness ==
    /\ Polled /\ outcome = "returned"
    /\ EventsOf("on_missed_packet") # {}
    /\ \E i, j \in EventsOf("on_axis") :
            dispatched[i].a = "LTrigger" /\ dispatched[j].a = "LX"
    /\ Cardinality(EventsOf("on_button")) = 3

\* C8: an update() that gets a snapshot with the stored packet number
\* delivers no event and leaves the cached axes and buttons and both
\* counters as they were, every time.
C8_SamePacketIsNoOp ==
    (Compared /\ arg.state.packet_number = pre.last_state.packet_number) =>
        /\ outcome = "returned"
        /\ dispatched = <<>>
        /\ axes = pre.axes
        /\ buttons = pre.buttons
        /\ received_packets = pre.received_packets
        /\ missed_packets = pre.missed_packets

\* The second of two polls, which gets the stored packet number with other
\* readings, after a first poll that handled a change.
C8_Witness ==
    /\ updates = 2 /\ Compared /\ outcome = "returned"
    /\ arg.state.packet_number = pre.last_state.packet_number
    /\ arg.state.gamepad # pre.last_state.gamepad
    /\ pre.received_packets = 1

\* C9: an update() that gets a packet number k >= 1 above the stored one adds
\* 1 to the received counter and k - 1 to the missed counter, and delivers
\* one missed-packet event carrying k - 1 when k > 1 and none when k = 1.
C9_ForwardGapAccounting ==
    (Compared /\ BigLess(pre.last_state.packet_number, arg.state.packet_number)) =>
        /\ outcome = "returned"
        /\ received_packets = pre.received_packets + 1
        /\ missed_packets = BigAdd(pre.missed_packets, Missed)
        /\ ~BigIsNeg(Missed)
        /\ Cardinality(EventsOf("on_missed_packet")) = IF BigIsZero(Missed) THEN 0 ELSE 1
        /\ \A i \in EventsOf("on_missed_packet") : dispatched[i].a = Missed

\* Packet numbers 5, 5, 8: the session was built on 5, the first poll counted
\* nothing and the second delivered MissedPacket(2) and counted 2 missed.
C9_Witness ==
    /\ updates = 2 /\ Compared /\ outcome = "returned"
    /\ pre.last_state.packet_number = Big(5)
    /\ pre.received_packets = 0 /\ pre.missed_packets = Big(0)
    /\ arg.state.packet_number = Big(8)
    /\ received_packets = 1 /\ missed_packets = Big(2)
    /\ \E i \in EventsOf("on_missed_packet") : dispatched[i].a = Big(2)

\* C10: a missed-packet event is delivered only when current - previous - 1
\* is above 0, carrying that number; differing packet numbers with a smaller
\* current one, as after a wrap, deliver none.  (Stated for the packet
\* numbers that decrease only by wrapping.)
C10_MissedEventOnlyWhenPositive ==
    (Compared /\ ~went_back) =>
        \A i \in EventsOf("on_missed_packet") :
            BigIsPos(Missed) /\ dispatched[i].a = Missed

\* The last call was an update() that found another packet number than the
\* stored one and handled the change.
Handled ==
    Compared /\ arg.state.packet_number # pre.last_state.packet_number

\* Bit k (value 2^k) of a mask.
Bit(mask, k) == (mask \div (2 ^ k)) % 2

\* The button events of the last call that carry ordinal n.
ButtonEvents(n) == { i \in EventsOf("on_button") : dispatched[i].a = n }

\* Ordinal n stands for bit Pos(n): a button event with ordinal n is delivered
\* exactly when that bit differs between the previous and the current mask,
\* and it carries that bit of the current mask.
ButtonsFollowBits(Pos(_)) ==
    Handled =>
        \A n \in 1..16 :
            /\ ButtonEvents(n) # {} <=>
                    Bit(pre.last_state.gamepad.buttons, Pos(n))
                        # Bit(arg.state.gamepad.buttons, Pos(n))
            /\ \A i \in ButtonEvents(n) :
                    dispatched[i].b = Bit(arg.state.gamepad.buttons, Pos(n))

\* C11 as claimed: ordinal 1 is the lowest bit, ordinal n is bit n - 1.
C11_OrdinalIsBitNMinus1 == ButtonsFollowBits(LAMBDA n : n - 1)

\* C11 as amended: ordinal 1 is the highest bit, ordinal n is bit 16 - n
\* (value 2^(16-n)); ordinal 16 is the lowest bit.
C11_OrdinalIsBit16MinusN == ButtonsFollowBits(LAMBDA n : 16 - n)

\* The mask went from 0x0001 to 0x8000: ordinal 16 released, ordinal 1 pressed.
C11_Witness ==
    /\ Handled /\ outcome = "returned"
    /\ pre.last_state.gamepad.buttons = 1
    /\ arg.state.gamepad.buttons = 32768
    /\ \E i \in ButtonEvents(1) : dispatched[i].b = 1
    /\ \E i \in ButtonEvents(16) : dispatched[i].b = 0

\* The bit positions in which the previous and the current mask differ.
Differing ==
    { k \in 0..15 : Bit(pre.last_state.gamepad.buttons, k)
                        # Bit(arg.state.gamepad.buttons, k) }

\* C12: a changed-packet update() delivers exactly one button event for each
\* bit position in which the two masks differ and none for the others (as
\* many as the set bits of previous XOR current), each carrying the current
\* mask's bit at its position.
C12_OneEventPerDifferingBit ==
    Handled =>
        /\ Cardinality(EventsOf("on_button")) = Cardinality(Differing)
        /\ \A k \in 0..15 :
            LET at == { i \in EventsOf("on_button") : 16 - dispatched[i].a = k }
            IN  /\ Cardinality(at) = IF k \in Differing THEN 1 ELSE 0
                /\ \A i \in at : dispatched[i].b = Bit(arg.state.gamepad.buttons, k)

\* The mask went from 0x0180 to 0x9001: two buttons released and three
\* pressed in one call, the other eleven unchanged.
C12_Witness ==
    /\ Handled /\ outcome = "returned"
    /\ pre.last_state.gamepad.buttons = 384
    /\ arg.state.gamepad.buttons = 36865
    /\ Cardinality(EventsOf("on_button")) = 5
    /\ Cardinality({ i \in EventsOf("on_button") : dispatched[i].b = 0 }) = 2

\* The 8-direction table over (L, R, U, D); every other combination is -1.
DpadTable(lrud) ==
    CASE lrud = <<0, 0, 1, 0>> -> 0
      [] lrud = <<0, 1, 1, 0>> -> 45
      [] lrud = <<0, 1, 0, 0>> -> 90
      [] lrud = <<0, 1, 0, 1>> -> 135
      [] lrud = <<0, 0, 0, 1>> -> 180
      [] lrud = <<1, 0, 0, 1>> -> 225
      [] lrud = <<1, 0, 0, 0>> -> 270
      [] lrud = <<1, 0, 1, 0>> -> 315
      [] OTHER -> -1

\* C13: get_dpad() returns the table's value for the four cached D-pad
\* buttons, -1 for the eight combinations the table leaves out, and changes
\* no session state.
C13_DpadTable ==
    op = "get_dpad" =>
        /\ outcome = "returned"
        /\ returned = DpadTable(<<buttons[14], buttons[13], buttons[16], buttons[15]>>)
        /\ last_state = pre.last_state
        /\ Observed(Self) = Observed(pre)
        /\ rumble = pre.rumble

\* get_dpad() with left and down held (mask 0x0004 + 0x0002 polled before).
C13_Witness ==
    /\ op = "get_dpad" /\ returned = 225
    /\ last_state.gamepad.buttons = 6
    /\ buttons[14] = 1 /\ buttons[15] = 1 /\ buttons[13] = 0 /\ buttons[16] = 0

\* clamp(value, 0, 1) of a fraction.
Clamp01(v) == IF v[1] < 0 THEN <<0, 1>> ELSE IF v[1] > v[2] THEN <<1, 1>> ELSE v

InUnitInterval(v) == 0 <= v[1] /\ v[1] <= v[2]

\* C14: set_rumble(side, value) stores clamp(value, 0, 1) in entry 0 for LEFT
\* and entry 1 for RIGHT, keeps the other entry, and forwards both entries to
\* the driver in one call; both stored intensities always lie in [0, 1].
C14_SetRumble ==
    /\ InUnitInterval(rumble[1]) /\ InUnitInterval(rumble[2])
    /\ op = "set_rumble" =>
        /\ arg.side \in {"LEFT", "left"} =>
              rumble[1] = Clamp01(arg.value) /\ rumble[2] = pre.rumble[2]
        /\ arg.side \in {"RIGHT", "Right"} =>
              rumble[2] = Clamp01(arg.value) /\ rumble[1] = pre.rumble[1]
        /\ Len(sent) = 1
        /\ sent[1].wLeftMotorSpeed * rumble[1][2] <= rumble[1][1] * UNIT
        /\ rumble[1][1] * UNIT < (sent[1].wLeftMotorSpeed + 1) * rumble[1][2]
        /\ sent[1].wRightMotorSpeed * rumble[2][2] <= rumble[2][1] * UNIT
        /\ rumble[2][1] * UNIT < (sent[1].wRightMotorSpeed + 1) * rumble[2][2]

\* set_rumble(LEFT, 1.5) after the right motor was set to a half: 1.0 is
\* stored left, the right entry is kept, and (65535, 32767) goes to the driver.
C14_Witness ==
    /\ op = "set_rumble" /\ arg.side = "LEFT" /\ arg.value = <<3, 2>>
    /\ pre.rumble = <<<<0, 1>>, <<1, 2>>>>
    /\ rumble = <<<<1, 1>>, <<1, 2>>>>
    /\ sent = <<[wLeftMotorSpeed |-> 65535, wRightMotorSpeed |-> 32767]>>

\* C15: a non-success status from the driver makes set_rumble,
\* get_battery_information and update end in a failure.
C15_BackendFailuresPropagate ==
    (op \in {"set_rumble", "get_battery_information", "update"}
     /\ arg.res # SUCCESS) => outcome # "returned"

\* The axis events of the last call for one axis.
AxisEvents(axis) == { i \in EventsOf("on_axis") : dispatched[i].a = axis }

\* The raw samples of an axis the last update() compared.
PrevRaw(axis) == pre.last_state.gamepad[axis]
CurRaw(axis) == arg.state.gamepad[axis]

\* raw / (2^bits - 1) in units of 1/UNIT: 8 bits for a trigger, 16 for a stick.
Normalized(axis, raw) ==
    (raw * UNIT) \div (IF axis \in {"LTrigger", "RTrigger"} THEN 2 ^ 8 - 1 ELSE 2 ^ 16 - 1)

\* The axis passes the dampen check: abs(prev_norm - cur_norm) > dampen.
PassesDampen(axis) ==
    GreaterThan(Abs(Normalized(axis, PrevRaw(axis)) - Normalized(axis, CurRaw(axis))),
                dampen)

\* A normalized value with a magnitude strictly below deadzone replaced by 0.
DeadzoneClamped(v) == IF Abs(v) * deadzone[2] < deadzone[1] * UNIT THEN 0 ELSE v

\* C16 (as stated): the axis events of one update() come in the order
\* LX, LY, RX, RY, LTrigger, RTrigger.
C16_SticksBeforeTriggers ==
    LET rank == [a \in Axis |->
                    CASE a = "LX" -> 1 [] a = "LY" -> 2 [] a = "RX" -> 3
                      [] a = "RY" -> 4 [] a = "LTrigger" -> 5 [] a = "RTrigger" -> 6]
    IN  Handled => \A i, j \in EventsOf("on_axis") :
            i < j => rank[dispatched[i].a] < rank[dispatched[j].a]

\* C16 (amended): the axis events of one update() come in the order
\* LTrigger, RTrigger, LX, LY, RX, RY: triggers before sticks, and the left
\* side before the right side of the same kind.
C16_TriggersBeforeSticks ==
    LET rank == [a \in Axis |->
                    CASE a = "LTrigger" -> 1 [] a = "RTrigger" -> 2 [] a = "LX" -> 3
                      [] a = "LY" -> 4 [] a = "RX" -> 5 [] a = "RY" -> 6]
    IN  Handled => \A i, j \in EventsOf("on_axis") :
            i < j => rank[dispatched[i].a] < rank[dispatched[j].a]

\* An update() in which all six axes change (defaults in force).
C16_Witness ==
    /\ Handled
    /\ \A a \in Axis : AxisEvents(a) # {}
    /\ \A i \in AxisEvents("LTrigger"), j \in EventsOf("on_axis") : i <= j
    /\ \A i \in AxisEvents("RY"), j \in EventsOf("on_axis") : j <= i

\* C17: an axis whose normalized samples differ by at most dampen gets no
\* axis event and keeps its cached value, whatever the deadzone and the
\* other axes do.
C17_DampenSuppresses ==
    Handled => \A axis \in Axis :
        ~PassesDampen(axis) =>
            AxisEvents(axis) = {} /\ axes[axis] = pre.axes[axis]

\* With dampen 1/4: LX goes from 1/5 into the deadzone (a move of 0.14, no
\* event although the deadzone-clamped values differ) while RX moves by 0.31.
C17_Witness ==
    /\ Handled /\ dampen = <<1, 4>>
    /\ PrevRaw("LX") = 13107 /\ CurRaw("LX") = 4000
    /\ DeadzoneClamped(Normalized("LX", 13107)) # DeadzoneClamped(Normalized("LX", 4000))
    /\ AxisEvents("LX") = {}
    /\ AxisEvents("RX") # {}

\* C18: for an axis that passes the dampen check, an axis event is
\* dispatched if and only if the previous and the current normalized value
\* differ after each with a magnitude strictly below deadzone is replaced by 0
\* (a magnitude equal to deadzone is kept).
C18_DeadzoneClamp ==
    Handled => \A axis \in Axis :
        PassesDampen(axis) =>
            /\ Cardinality(AxisEvents(axis)) <= 1
            /\ AxisEvents(axis) # {} <=>
                   DeadzoneClamped(Normalized(axis, PrevRaw(axis)))
                     # DeadzoneClamped(Normalized(axis, CurRaw(axis)))

\* With deadzone 1/5: the left trigger reaches exactly 1/5 from inside the
\* deadzone and is reported as 1/5, while RY moves inside the deadzone and
\* is not reported.
C18_Witness ==
    /\ Handled /\ deadzone = <<1, 5>>
    /\ PrevRaw("LTrigger") = 10 /\ CurRaw("LTrigger") = 51
    /\ \E i \in AxisEvents("LTrigger") : dispatched[i].b * 5 = UNIT
    /\ PrevRaw("RY") = -4000 /\ CurRaw("RY") = 0
    /\ PassesDampen("RY")
    /\ AxisEvents("RY") = {}

\* C19: an axis event carries, and the cache then holds, clamp(2 * d, -1, 1)
\* for a stick and clamp(d, -1, 1) for a trigger, d being the
\* deadzone-clamped current sample; a stick value lies in [-1, 1], a trigger
\* value in [0, 1], and a stick's value is not the un-doubled d (unless d = 0).
C19_AxisEventValue ==
    Handled => \A i \in EventsOf("on_axis") :
        LET axis == dispatched[i].a
            v == dispatched[i].b
            d == DeadzoneClamped(Normalized(axis, CurRaw(axis)))
        IN  /\ axes[axis] = v
            /\ axis \in {"LTrigger", "RTrigger"} =>
                  /\ v = (IF d > UNIT THEN UNIT ELSE IF d < -UNIT THEN -UNIT ELSE d)
                  /\ 0 <= v /\ v <= UNIT
            /\ axis \notin {"LTrigger", "RTrigger"} =>
                  /\ v = (IF 2 * d > UNIT THEN UNIT
                          ELSE IF 2 * d < -UNIT THEN -UNIT ELSE 2 * d)
                  /\ -UNIT <= v /\ v <= UNIT
                  /\ d # 0 => v # d

\* RX falls to -32768 and is reported as -1, LX rises to 20000 and is
\* reported doubled, the left trigger rises to 255 and is reported as 1.
C19_Witness ==
    /\ Handled
    /\ CurRaw("RX") = -32768 /\ \E i \in AxisEvents("RX") : dispatched[i].b = -UNIT
    /\ CurRaw("LX") = 20000 /\ \E i \in AxisEvents("LX") : dispatched[i].b = 40000
    /\ CurRaw("LTrigger") = 255
    /\ \E i \in AxisEvents("LTrigger") : dispatched[i].b = UNIT

\* C20: for 0 <= value < 2^width, get_bit_values(value, width) has exactly
\* width entries, each 0 or 1, most significant bit first: entry i (0-based)
\* is bit width-1-i of value; get_bit_values(0, width) is width zeros,
\* get_bit_values(1, 4) = [0,0,0,1] and get_bit_values(3, 2) = [1,1].
C20_BitDecoder ==
    (op = "get_bit_values" /\ 0 <= arg.number /\ arg.number < 2 ^ arg.size) =>
        /\ Len(returned) = arg.size
        /\ \A i \in 0..(arg.size - 1) :
              /\ returned[i + 1] \in {0, 1}
              /\ returned[i + 1] = Bit(arg.number, arg.size - 1 - i)
        /\ arg.number = 0 => \A i \in 1..Len(returned) : returned[i] = 0
        /\ arg = [number |-> 1, size |-> 4] => returned = <<0, 0, 0, 1>>
        /\ arg = [number |-> 3, size |-> 2] => returned = <<1, 1>>

\* get_bit_values(5, 6): a word narrower than the width, padded in front.
C20_Witness ==
    /\ op = "get_bit_values" /\ arg = [number |-> 5, size |-> 6]
    /\ returned = <<0, 0, 0, 1, 0, 1>>

\* The session was constructed on a snapshot and the driver's packet number
\* has never decreased since.
NeverDecreased == first_state # None /\ ~went_back /\ ~wrapped

\* C21: for a session constructed while connected and polled with packet
\* numbers that never decrease, received_packets + missed_packets is the
\* stored packet number minus the packet number the constructor got, and
\* received_packets is the number of update() calls that saw a packet number
\* other than the stored one.
C21_PacketConservation ==
    NeverDecreased =>
        /\ BigAdd(Big(received_packets), missed_packets)
             = BigSub(last_state.packet_number, first_state.packet_number)
        /\ received_packets = changes

\* Packet numbers 5, 6, 8: two packets received and one missed make 8 - 5.
C21_Witness ==
    /\ NeverDecreased /\ Polled /\ updates = 2
    /\ first_state.packet_number = Big(5)
    /\ pre.last_state.packet_number = Big(6)
    /\ last_state.packet_number = Big(8)
    /\ received_packets = 2 /\ missed_packets = Big(1) /\ changes = 2

\* C22: for a session constructed on a snapshot with no button pressed and
\* polled by a driver that repeats no packet number with other readings,
\* get_button(n) is, for every ordinal n in 1..16, bit 16-n of the stored
\* snapshot's button mask (the bit the session pairs with ordinal n), and
\* entry 0 of the button array is never written.
C22_ButtonCacheTracks ==
    (first_state # None /\ first_state.gamepad.buttons = 0 /\ ~incoherent) =>
        /\ \A n \in 1..16 : get_button(Self, n) = Bit(last_state.gamepad.buttons, 16 - n)
        /\ get_button(Self, 0) = 0
        /\ \A i \in EventsOf("on_button") : dispatched[i].a \in 1..16

\* Masks 0, 0x9001, 0x8000 under packet numbers 5, 6, 8: ordinals 1, 4 and 16
\* were pressed, then 4 and 16 released; the cache shows ordinal 1 alone.
C22_Witness ==
    /\ Polled /\ updates = 2 /\ ~incoherent
    /\ first_state # None /\ first_state.gamepad.buttons = 0
    /\ first_state.packet_number = Big(5)
    /\ pre.last_state = XINPUT_STATE(Big(6), XINPUT_GAMEPAD(36865, 255, 128, 20000, 0, -32768, 0))
    /\ pre.buttons[1] = 1 /\ pre.buttons[4] = 1 /\ pre.buttons[16] = 1
    /\ last_state.packet_number = Big(8) /\ last_state.gamepad.buttons = 32768
    /\ buttons[1] = 1 /\ buttons[4] = 0 /\ buttons[16] = 0

====
